---- MODULE Spec2Model ----
(***************************************************************************)
(* covid-check: the row classifier (fieldTranslate), the query engine      *)
(* (x.Query, check, checkNot), x.Clean and x.Render of the client type x,  *)
(* as a state machine.                                                     *)
(*                                                                         *)
(* Go strings are tuples of one-character strings, so that Split, Trim,    *)
(* Contains, the regular expressions and fmt's rendering are computed on   *)
(* the characters as the library computes them.                            *)
(***************************************************************************)
EXTENDS Integers, Sequences, FiniteSets, TLC

VARIABLES
    RawCSV,           \* x.RawCSV: the payload, one string
    RawResults,       \* x.RawResults.Items
    FilteredResults,  \* x.FilteredResults.Items
    Filter,           \* x.Filter: the Entry most recently applied by Query
    PositiveQueries,  \* package variable PositiveQueries
    NegativeQueries,  \* package variable NegativeQueries
    stdout,           \* the lines the last call wrote to standard output
    clock,            \* the readings time.Now() has returned so far
    panicked,         \* a run-time panic has ended the program
    loads,            \* calls of SetCSVData so far
    hist,             \* the last call and the last Query call before it
    ftPc,             \* fieldTranslate, one call: position in the function
    ftLine,           \*   its argument *e
    ftComponents,     \*   components
    ftI,              \*   the loop index i (1-based)
    ftLoc,            \*   the locals date, Status, ... , Location
    ftRet,            \*   the Entry returned
    evRec,            \* Query's loop body, one record: dataEntry
    evE,              \*   the filter *e
    evPos,            \*   PositiveQueries
    evNeg,            \*   NegativeQueries
    evOut,            \*   mq.Items and match after the body
    limit,            \* package variable limit (flag -limit)
    rawOutput,        \* package variable rawOutput (flag -raw)
    table,            \* Render: the rows appended to the table
    printed,          \* what Render and main's report have printed
    mnPc              \* main after Query: before Render, before the report, done

mainVars == <<RawCSV, RawResults, FilteredResults, Filter, PositiveQueries,
              NegativeQueries, stdout, clock, panicked, loads, hist>>
ftVars == <<ftPc, ftLine, ftComponents, ftI, ftLoc, ftRet>>
evVars == <<evRec, evE, evPos, evNeg, evOut>>
rnVars == <<limit, rawOutput, table, printed, mnPc>>
vars == <<RawCSV, RawResults, FilteredResults, Filter, PositiveQueries,
          NegativeQueries, stdout, clock, panicked, loads, hist,
          ftPc, ftLine, ftComponents, ftI, ftLoc, ftRet,
          evRec, evE, evPos, evNeg, evOut,
          limit, rawOutput, table, printed, mnPc>>

(***************************************************************************)
(* Characters and the strings package.                                     *)
(***************************************************************************)
UpperSeq == <<"A", "B", "C", "D", "E", "F", "G", "H", "I", "J", "K", "L", "M",
              "N", "O", "P", "Q", "R", "S", "T", "U", "V", "W", "X", "Y", "Z">>
LowerSeq == <<"a", "b", "c", "d", "e", "f", "g", "h", "i", "j", "k", "l", "m",
              "n", "o", "p", "q", "r", "s", "t", "u", "v", "w", "x", "y", "z">>
DigitSeq == <<"0", "1", "2", "3", "4", "5", "6", "7", "8", "9">>

Range(s) == {s[i] : i \in 1..Len(s)}
Upper == Range(UpperSeq)
Lower == Range(LowerSeq)
Digit == Range(DigitSeq)

DigitVal(c) == (CHOOSE i \in 1..Len(DigitSeq) : DigitSeq[i] = c) - 1
AllDigits(s) == \A i \in 1..Len(s) : s[i] \in Digit

RECURSIVE Atoi(_)
Atoi(s) == IF Len(s) = 0 THEN 0
           ELSE 10 * Atoi(SubSeq(s, 1, Len(s) - 1)) + DigitVal(s[Len(s)])

MinOf(S) == CHOOSE a \in S : \A b \in S : a <= b
MaxOf(S) == CHOOSE a \in S : \A b \in S : a >= b

ToLowerChar(c) ==
    IF c \in Upper THEN LowerSeq[CHOOSE i \in 1..Len(UpperSeq) : UpperSeq[i] = c] ELSE c

\* strings.ToLower
ToLower(s) == [i \in 1..Len(s) |-> ToLowerChar(s[i])]

\* strings.Contains(b, a)
Contains(b, a) ==
    \E i \in 0..(Len(b) - Len(a)) : SubSeq(b, i + 1, i + Len(a)) = a

\* strings.Split(s, sep) for a one-character separator: always at least one piece
Split(s, sep) ==
    LET P == {i \in 1..Len(s) : s[i] = sep}
        n == Cardinality(P)
        Bnd(k) == IF k = 0 THEN 0
                  ELSE IF k = n + 1 THEN Len(s) + 1
                  ELSE CHOOSE i \in P : Cardinality({j \in P : j < i}) = k - 1
    IN [k \in 1..(n + 1) |-> SubSeq(s, Bnd(k - 1) + 1, Bnd(k) - 1)]

\* strings.Trim(s, cutset) for a one-character cutset
Trim(s, c) ==
    LET K == {i \in 1..Len(s) : s[i] # c}
    IN IF K = {} THEN <<>> ELSE SubSeq(s, MinOf(K), MaxOf(K))

\* strings.Replace(s, "am", "AM", -1) and strings.Replace(s, "pm", "PM", -1):
\* the two letters of an occurrence differ, so occurrences never overlap
ReplacePair(s, c1, c2, r1, r2) ==
    [i \in 1..Len(s) |->
        IF s[i] = c1 /\ i < Len(s) /\ s[i + 1] = c2 THEN r1
        ELSE IF s[i] = c2 /\ i > 1 /\ s[i - 1] = c1 THEN r2
        ELSE s[i]]

\* the replacement of "am" alone, "pm" left as it is
UpperMeridiemAmOnly(s) == ReplacePair(s, "a", "m", "A", "M")

UpperMeridiem(s) == ReplacePair(ReplacePair(s, "a", "m", "A", "M"), "p", "m", "P", "M")

\* strings.Join(lines, sep)
RECURSIVE Join(_, _)
Join(ss, sep) == IF Len(ss) = 0 THEN <<>>
                 ELSE IF Len(ss) = 1 THEN ss[1]
                 ELSE ss[1] \o sep \o Join(Tail(ss), sep)

trimQuotes(in) ==
    IF "\"" \in Range(in) THEN Trim(Split(in, "\"")[2], " ") ELSE in

(***************************************************************************)
(* time.Time values. A *time.Time is a record; nil is the record with      *)
(* isnil. mono is the monotonic reading time.Now() attaches (0: none).     *)
(***************************************************************************)
NilTime == [isnil |-> TRUE, y |-> 0, m |-> 0, d |-> 0, h |-> 0, mi |-> 0, mono |-> 0]
MkTime(y, m, d, h, mi, mono) ==
    [isnil |-> FALSE, y |-> y, m |-> m, d |-> d, h |-> h, mi |-> mi, mono |-> mono]
\* &time.Time{}: 1 January of year 1, 00:00 UTC
ZeroTime == MkTime(1, 1, 1, 0, 0, 0)
\* the calendar day on which the program runs, in UTC
Today == [y |-> 2026, m |-> 11, d |-> 5]
\* time.Now() at the reading numbered tick: later readings are later instants
Now(tick) == MkTime(Today.y, Today.m, Today.d, 12, 0, tick)

IsLeap(y) == (y % 4 = 0 /\ y % 100 # 0) \/ y % 400 = 0
DaysIn(m, y) == IF m = 2 THEN (IF IsLeap(y) THEN 29 ELSE 28)
                ELSE IF m \in {4, 6, 9, 11} THEN 30 ELSE 31

\* time.Parse("2/1/2006", s): day and month of one or two digits, a year of four
ParseDate(s) ==
    LET n == Len(s)
        dl == IF n >= 2 /\ s[2] \in Digit THEN 2 ELSE 1
        ml == IF n >= dl + 3 /\ s[dl + 3] \in Digit THEN 2 ELSE 1
        shape == /\ n >= 1 /\ s[1] \in Digit
                 /\ n >= dl + 1 /\ s[dl + 1] = "/"
                 /\ n >= dl + 2 /\ s[dl + 2] \in Digit
                 /\ n >= dl + ml + 2 /\ s[dl + ml + 2] = "/"
                 /\ n = dl + ml + 6
                 /\ AllDigits(SubSeq(s, dl + ml + 3, n))
        day == Atoi(SubSeq(s, 1, dl))
        month == Atoi(SubSeq(s, dl + 2, dl + ml + 1))
        year == Atoi(SubSeq(s, dl + ml + 3, n))
    IN IF shape /\ month >= 1 /\ month <= 12 /\ day >= 1 /\ day <= DaysIn(month, year)
       THEN [ok |-> TRUE, t |-> MkTime(year, month, day, 0, 0, 0)]
       ELSE [ok |-> FALSE, t |-> NilTime]

\* time.Parse(time.Kitchen, s), layout "3:04PM"
ParseKitchen(s) ==
    LET n == Len(s)
        hl == IF n >= 2 /\ s[2] \in Digit THEN 2 ELSE 1
        shape == /\ n = hl + 5
                 /\ s[1] \in Digit
                 /\ s[hl + 1] = ":"
                 /\ s[hl + 2] \in Digit /\ s[hl + 3] \in Digit
                 /\ SubSeq(s, hl + 4, hl + 5) \in {<<"A", "M">>, <<"P", "M">>}
        hour == Atoi(SubSeq(s, 1, hl))
        min == Atoi(SubSeq(s, hl + 2, hl + 3))
        pm == s[hl + 4] = "P"
        h24 == IF pm /\ hour < 12 THEN hour + 12
               ELSE IF ~pm /\ hour = 12 THEN 0 ELSE hour
    IN IF shape /\ hour <= 12 /\ min < 60
       THEN [ok |-> TRUE, t |-> MkTime(0, 1, 1, h24, min, 0)]
       ELSE [ok |-> FALSE, t |-> NilTime]

(***************************************************************************)
(* The patterns of fieldTranslate. An empty alternative (the "||" of the   *)
(* source) matches the empty string.                                       *)
(***************************************************************************)
sNew == <<"N", "e", "w">>
sUpdated == <<"U", "p", "d", "a", "t", "e", "d">>
sArchived == <<"A", "r", "c", "h", "i", "v", "e", "d">>
sClose == <<"C", "l", "o", "s", "e">>
sCasual == <<"C", "a", "s", "u", "a", "l">>
sMonitor == <<"M", "o", "n", "i", "t", "o", "r">>
sPublicTransport == <<"P", "u", "b", "l", "i", "c", " ", "T", "r", "a", "n", "s", "p", "o", "r", "t">>

StatusTokens == {sNew, sUpdated, sArchived}
ContactTokens == {sClose, sCasual, sMonitor}
StateTokens == {<<"A", "C", "T">>, <<"N", "S", "W">>, <<"V", "I", "C">>, <<"T", "A", "S">>,
                <<"S", "A">>, <<"W", "A">>, <<"N", "T">>, <<"Q", "L", "D">>}

\* `^.*[0-9]+\/[0-9]+\/[0-9][0-9]+.*$`
MatchDate(s) ==
    \E i, j \in 1..Len(s) :
        /\ i >= 2 /\ j > i + 1 /\ j + 2 <= Len(s)
        /\ s[i] = "/" /\ s[j] = "/"
        /\ s[i - 1] \in Digit
        /\ AllDigits(SubSeq(s, i + 1, j - 1))
        /\ s[j + 1] \in Digit /\ s[j + 2] \in Digit

\* the status pattern without its closing anchor
MatchStatusPrefix(s) ==
    s = <<>> \/ \E t \in StatusTokens : Len(s) >= Len(t) /\ SubSeq(s, 1, Len(t)) = t

\* "^(New||Updated||Archived)$"
MatchStatus(s) == s \in StatusTokens \cup {<<>>}
\* the contact pattern without its last word
MatchContactNoMonitor(s) == s \in {sClose, sCasual, <<>>}

\* "^(Close||Casual||Monitor)$"
MatchContact(s) == s \in ContactTokens \cup {<<>>}
\* "^(ACT||NSW||VIC||TAS||SA||WA||NT||QLD)$"
MatchState(s) == s \in StateTokens \cup {<<>>}
\* the suburb pattern without its "+": one uppercase and one lowercase letter
MatchSuburbTwoLetters(s) == Len(s) = 2 /\ s[1] \in Upper /\ s[2] \in Lower

\* "^[A-Z][a-z]+$"
MatchSuburb(s) ==
    Len(s) >= 2 /\ s[1] \in Upper /\ \A i \in 2..Len(s) : s[i] \in Lower

\* "^[0-9]+(:)[0-9]+(am||pm||AM||PM)$"
MatchTime(s) ==
    \E c \in 2..Len(s) :
        /\ s[c] = ":"
        /\ AllDigits(SubSeq(s, 1, c - 1))
        /\ \E k \in (c + 1)..Len(s) :
              /\ AllDigits(SubSeq(s, c + 1, k))
              /\ SubSeq(s, k + 1, Len(s)) \in
                    {<<>>, <<"a", "m">>, <<"p", "m">>, <<"A", "M">>, <<"P", "M">>}

\* "^([A-Z]||[0-9]).*[a-z].*$": with the empty alternative, any lowercase letter
MatchLocation(s) == \E i \in 1..Len(s) : s[i] \in Lower

\* `^([0-9-\/]+\ [A-Z][a-z].*||[A-Z][a-z].*)$`
MatchStreet(s) ==
    \/ s = <<>>
    \/ Len(s) >= 2 /\ s[1] \in Upper /\ s[2] \in Lower
    \/ \E k \in 1..Len(s) :
          /\ Len(s) >= k + 3
          /\ \A i \in 1..k : s[i] \in Digit \cup {"-", "/"}
          /\ s[k + 1] = " " /\ s[k + 2] \in Upper /\ s[k + 3] \in Lower

(***************************************************************************)
(* Entry and fieldTranslate.                                               *)
(***************************************************************************)
MinComponents == 9

\* Entry{}: every string empty, every pointer nil
EmptyEntry ==
    [Status |-> <<>>, ExposureLocation |-> <<>>, Street |-> <<>>, Suburb |-> <<>>,
     State |-> <<>>, Date |-> NilTime, ArrivalTime |-> NilTime,
     DepartureTime |-> NilTime, Contact |-> <<>>]

\* the locals of fieldTranslate before its loop; fault: the call has panicked
FTLocals(now) ==
    [date |-> now, Status |-> <<>>, Contact |-> <<>>, State |-> <<>>,
     TimeStart |-> ZeroTime, TimeEnd |-> ZeroTime, Suburb |-> <<>>,
     Street |-> <<>>, Location |-> <<>>, fault |-> FALSE]

\* the last two blocks of the loop body: location and street, neither continues
FTLocationStreet(st, fieldData) ==
    LET st1 == IF MatchLocation(fieldData) /\ st.Location = <<>>
               THEN [st EXCEPT !.Location = fieldData] ELSE st
    IN IF MatchStreet(fieldData) /\ st1.Street = <<>>
       THEN [st1 EXCEPT !.Street = fieldData] ELSE st1

\* the time-pair block storing each time that parsed, whatever the other did
FTTimePairEach(st, components, i, fieldData) ==
    IF MatchTime(fieldData)
    THEN IF i + 1 > Len(components)
         THEN [st EXCEPT !.fault = TRUE]
         ELSE LET fd == UpperMeridiem(fieldData)
                  one == ParseKitchen(fd)
                  two == ParseKitchen(UpperMeridiem(trimQuotes(components[i + 1])))
                  st1 == IF one.ok THEN [st EXCEPT !.TimeStart = one.t] ELSE st
                  st2 == IF two.ok THEN [st1 EXCEPT !.TimeEnd = two.t] ELSE st1
              IN FTLocationStreet(st2, fd)
    ELSE FTLocationStreet(st, fieldData)

\* the time-pair block and what follows it; components[i+1] past the end panics
FTTimePair(st, components, i, fieldData) ==
    IF MatchTime(fieldData)
    THEN IF i + 1 > Len(components)
         THEN [st EXCEPT !.fault = TRUE]
         ELSE LET fd == UpperMeridiem(fieldData)
                  one == ParseKitchen(fd)
                  two == ParseKitchen(UpperMeridiem(trimQuotes(components[i + 1])))
                  st1 == IF one.ok /\ two.ok
                         THEN [st EXCEPT !.TimeStart = one.t, !.TimeEnd = two.t]
                         ELSE st
              IN FTLocationStreet(st1, fd)
    ELSE FTLocationStreet(st, fieldData)

\* one iteration of the loop over components
FTStep(st, components, i) ==
    LET v == components[i]
        datestring == Split(trimQuotes(v), " ")[1]
        parsed == ParseDate(datestring)
        st1 == IF MatchDate(datestring) /\ parsed.ok
               THEN [st EXCEPT !.date = parsed.t] ELSE st
        fieldData == trimQuotes(v)
    IN IF MatchStatus(fieldData) /\ st1.Status = <<>>
       THEN [st1 EXCEPT !.Status = fieldData]
       ELSE IF MatchContact(fieldData) /\ st1.Contact = <<>>
       THEN [st1 EXCEPT !.Contact = fieldData]
       ELSE IF MatchState(fieldData) /\ st1.State = <<>>
       THEN [st1 EXCEPT !.State = fieldData]
       ELSE IF MatchSuburb(fieldData) /\ st1.Suburb = <<>>
       THEN [st1 EXCEPT !.Suburb = fieldData]
       ELSE IF ~MatchSuburb(fieldData) /\ fieldData = sPublicTransport
       THEN [st1 EXCEPT !.Suburb = fieldData]
       ELSE FTTimePair(st1, components, i, fieldData)

\* the Entry built after the loop
FTEntry(st) ==
    [Status |-> st.Status, ExposureLocation |-> st.Location, Street |-> st.Street,
     Suburb |-> st.Suburb, State |-> st.State, Date |-> st.date,
     ArrivalTime |-> st.TimeStart, DepartureTime |-> st.TimeEnd,
     Contact |-> st.Contact]

RECURSIVE FTLoop(_, _, _)
FTLoop(st, components, i) ==
    IF st.fault \/ i > Len(components) THEN st
    ELSE FTLoop(FTStep(st, components, i), components, i + 1)

\* the length check with the threshold one lower
FTTooShortByOne(components) == Len(components) < MinComponents - 1

\* len(components) < 9
FTTooShort(components) == Len(components) < MinComponents

\* fieldTranslate(e) called when time.Now() reads now: the Entry, or a panic
fieldTranslate(e, now) ==
    LET components == Split(e, ",")
    IN IF FTTooShort(components)
       THEN [fault |-> FALSE, entry |-> EmptyEntry]
       ELSE LET st == FTLoop(FTLocals(now), components, 1)
            IN [fault |-> st.fault, entry |-> FTEntry(st)]

(***************************************************************************)
(* fmt: the rendering of an Entry and of the times it points to.           *)
(***************************************************************************)
RECURSIVE Itoa(_)
Itoa(n) == IF n < 10 THEN <<DigitSeq[n + 1]>>
           ELSE Itoa(n \div 10) \o <<DigitSeq[(n % 10) + 1]>>

RECURSIVE Pad(_, _)
Pad(n, w) == IF w = 0 THEN <<>>
             ELSE Pad(n \div 10, w - 1) \o <<DigitSeq[(n % 10) + 1]>>

sNilAngle == <<"<", "n", "i", "l", ">">>
sUtc == <<" ", "+", "0", "0", "0", "0", " ", "U", "T", "C">>
sMono == <<" ", "m", "=", "+">>
sOneOneOne == <<"1", "-", "1", "-", "1">>

\* Time.String(): "2006-01-02 15:04:05 +0000 UTC", and the monotonic reading if any
TimeString(t) ==
    Pad(t.y, 4) \o <<"-">> \o Pad(t.m, 2) \o <<"-">> \o Pad(t.d, 2) \o <<" ">>
    \o Pad(t.h, 2) \o <<":">> \o Pad(t.mi, 2) \o <<":", "0", "0">> \o sUtc
    \o (IF t.mono > 0 THEN sMono \o Itoa(t.mono) ELSE <<>>)

\* fmt.Sprint of a *time.Time: its String(), or <nil>
SprintPtr(t) == IF t.isnil THEN sNilAngle ELSE TimeString(t)

\* fmt.Sprint of an Entry: the fields in order, one space between, in braces
SprintEntry(e) ==
    <<"{">> \o e.Status \o <<" ">> \o e.ExposureLocation \o <<" ">> \o e.Street
    \o <<" ">> \o e.Suburb \o <<" ">> \o e.State \o <<" ">> \o SprintPtr(e.Date)
    \o <<" ">> \o SprintPtr(e.ArrivalTime) \o <<" ">> \o SprintPtr(e.DepartureTime)
    \o <<" ">> \o e.Contact \o <<"}">>

\* fmt.Sprintf("%d-%d-%d", t.Day(), t.Month(), t.Year())
DayMonthYear(t) == Itoa(t.d) \o <<"-">> \o Itoa(t.m) \o <<"-">> \o Itoa(t.y)

(***************************************************************************)
(* regexp.Match for the patterns a filter value can be here: literal       *)
(* characters, ".", "^", "$" and alternatives separated by "|".            *)
(***************************************************************************)
RECURSIVE MatchHere(_, _, _, _)
MatchHere(br, k, s, pos) ==
    IF k > Len(br) THEN TRUE
    ELSE IF br[k] = "^" THEN pos = 1 /\ MatchHere(br, k + 1, s, pos)
    ELSE IF br[k] = "$" THEN pos = Len(s) + 1 /\ MatchHere(br, k + 1, s, pos)
    ELSE /\ pos <= Len(s)
         /\ (br[k] = s[pos] \/ (br[k] = "." /\ s[pos] # "\n"))
         /\ MatchHere(br, k + 1, s, pos + 1)

RegexMatch(pattern, s) ==
    LET branches == Split(pattern, "|")
    IN \E b \in 1..Len(branches) : \E start \in 1..(Len(s) + 1) :
          MatchHere(branches[b], 1, s, start)

(***************************************************************************)
(* check, checkNot and the body of Query's loop.                           *)
(***************************************************************************)
sNilWord == <<"n", "i", "l">>

\* check(a, b, mq) for a string a: the value returned, which is also appended
\* check without the "nil" convention of lines 731-734
checkNoNil(a, b) ==
    LET la == ToLower(a)
        lb == ToLower(b)
    IN Contains(lb, la) \/ RegexMatch(la, lb)

check(a, b) ==
    LET la == ToLower(a)
        lb == ToLower(b)
    IN \/ Contains(lb, la)
       \/ RegexMatch(la, lb)
       \/ (la = sNilWord /\ lb = <<>>)

\* check(a, b, mq) for a *time.Time a: the default branch, found stays false
checkNoHandler == FALSE

\* checkNot(a, b, mq) for a string a: the value returned; its negation is appended
checkNot(a, b) ==
    LET la == ToLower(a)
        lb == ToLower(b)
    IN /\ Contains(lb, la)
       /\ RegexMatch(la, lb)
       /\ ~(la = sNilWord /\ lb = <<>>)

\* one string field of the filter: nothing if unset, else check's boolean
QueryField(e, dataEntry, f) ==
    IF e[f] # <<>> THEN <<check(e[f], dataEntry[f])>> ELSE <<>>

\* the date block without the "1-1-1" guards
QueryDateUnguarded(e, dataEntry) ==
    IF ~e.Date.isnil
    THEN <<check(DayMonthYear(e.Date), DayMonthYear(dataEntry.Date))>>
    ELSE <<>>

\* the date block: both dates as day-month-year, compared by check
QueryDate(e, dataEntry) ==
    IF ~e.Date.isnil /\ SprintPtr(e.Date) # sOneOneOne
    THEN IF DayMonthYear(e.Date) # sOneOneOne
         THEN <<check(DayMonthYear(e.Date), DayMonthYear(dataEntry.Date))>>
         ELSE <<>>
    ELSE <<>>

\* the time blocks: a *time.Time reaches check's default branch
QueryTime(t) == IF ~t.isnil THEN <<checkNoHandler>> ELSE <<>>

\* the loop body without the final pass over mq.Items
QueryEntryNoFinalPass(dataEntry, e, pos, neg) ==
    LET text == SprintEntry(dataEntry)
        posT == [i \in 1..Len(pos) |-> check(pos[i], text)]
        negT == [i \in 1..Len(neg) |-> ~checkNot(neg[i], text)]
        mq == QueryField(e, dataEntry, "Status")
              \o QueryField(e, dataEntry, "ExposureLocation")
              \o QueryField(e, dataEntry, "Street")
              \o QueryField(e, dataEntry, "Suburb")
              \o QueryField(e, dataEntry, "State")
              \o QueryDate(e, dataEntry)
              \o QueryTime(e.ArrivalTime)
              \o QueryTime(e.DepartureTime)
              \o QueryField(e, dataEntry, "Contact")
              \o posT \o negT
        last == IF Len(neg) # 0 THEN negT[Len(neg)]
                ELSE IF Len(pos) # 0 THEN posT[Len(pos)]
                ELSE TRUE
    IN [mq |-> mq,
        match |-> last,
        fault |-> ~e.Date.isnil /\ SprintPtr(e.Date) # sOneOneOne /\ dataEntry.Date.isnil]

\* the body of Query's loop for one dataEntry: mq.Items, match, and whether
\* dataEntry.Date was dereferenced while nil
QueryEntry(dataEntry, e, pos, neg) ==
    LET text == SprintEntry(dataEntry)
        posT == [i \in 1..Len(pos) |-> check(pos[i], text)]
        negT == [i \in 1..Len(neg) |-> ~checkNot(neg[i], text)]
        mq == QueryField(e, dataEntry, "Status")
              \o QueryField(e, dataEntry, "ExposureLocation")
              \o QueryField(e, dataEntry, "Street")
              \o QueryField(e, dataEntry, "Suburb")
              \o QueryField(e, dataEntry, "State")
              \o QueryDate(e, dataEntry)
              \o QueryTime(e.ArrivalTime)
              \o QueryTime(e.DepartureTime)
              \o QueryField(e, dataEntry, "Contact")
              \o posT \o negT
        last == IF Len(neg) # 0 THEN negT[Len(neg)]
                ELSE IF Len(pos) # 0 THEN posT[Len(pos)]
                ELSE TRUE
    IN [mq |-> mq,
        match |-> last /\ \A i \in 1..Len(mq) : mq[i],
        fault |-> ~e.Date.isnil /\ SprintPtr(e.Date) # sOneOneOne /\ dataEntry.Date.isnil]

(***************************************************************************)
(* The payloads, filters and queries the client is run on.                 *)
(***************************************************************************)
LHolt ==
    <<",", "A", "r", "c", "h", "i", "v", "e", "d", ",", "\"", "7", "-", "E", "l", "e", "v", "e", "n", " ", "H", "o", "l", "t", "\"", ",", "\"", "8", "8", " ", "H", "a", "r", "d", "w", "i", "c", "k", " ", "C", "r", "e", "s", "c", "e", "n", "t", "\"", ",", "\"", "H", "o", "l", "t", "\"", ",", "\"", "A", "C", "T", "\"", ",", "\"", "0", "1", "/", "0", "9", "/", "2", "0", "2", "1", " ", "-", " ", "W", "e", "d", "n", "e", "s", "d", "a", "y", "\"", ",", "2", ":", "1", "5", "p", "m", ",", "3", ":", "0", "0", "p", "m", ",", "\"", "M", "o", "n", "i", "t", "o", "r", "\"">>
LKaleen ==
    <<"N", "e", "w", ",", "\"", "C", "o", "l", "e", "s", " ", "K", "a", "l", "e", "e", "n", "\"", ",", "\"", "K", "a", "l", "e", "e", "n", " ", "P", "l", "a", "z", "a", "\"", ",", "\"", "K", "a", "l", "e", "e", "n", "\"", ",", "\"", "A", "C", "T", "\"", ",", "\"", "0", "9", "/", "1", "0", "/", "2", "0", "2", "1", " ", "-", " ", "S", "a", "t", "u", "r", "d", "a", "y", "\"", ",", "6", ":", "1", "5", "p", "m", ",", "7", ":", "1", "0", "p", "m", ",", "\"", "C", "a", "s", "u", "a", "l", "\"">>
LNoDate ==
    <<",", ",", "\"", "A", "L", "D", "I", " ", "B", "e", "l", "c", "o", "n", "n", "e", "n", "\"", ",", "\"", "W", "e", "s", "t", "f", "i", "e", "l", "d", " ", "B", "e", "l", "c", "o", "n", "n", "e", "n", "\"", ",", "\"", "B", "e", "l", "c", "o", "n", "n", "e", "n", "\"", ",", "\"", "A", "C", "T", "\"", ",", ",", "7", ":", "0", "0", "p", "m", ",", "7", ":", "3", "0", "p", "m", ",", "\"", "M", "o", "n", "i", "t", "o", "r", "\"">>
LTie ==
    <<",", "A", "r", "c", "h", "i", "v", "e", "d", ",", "\"", "C", "o", "l", "e", "s", " ", "W", "o", "d", "e", "n", "\"", ",", "\"", "K", "e", "l", "t", "i", "e", " ", "S", "t", "r", "e", "e", "t", "\"", ",", "\"", "P", "h", "i", "l", "l", "i", "p", "\"", ",", "\"", "A", "C", "T", "\"", ",", "\"", "0", "1", "/", "0", "9", "/", "2", "0", "2", "1", " ", "-", " ", "W", "e", "d", "n", "e", "s", "d", "a", "y", "\"", ",", "1", ":", "0", "0", "p", "m", ",", "2", ":", "0", "0", "p", "m", ",", "\"", "C", "a", "s", "u", "a", "l", "\"">>
LShort ==
    <<"S", "t", "a", "t", "u", "s", ",", "L", "o", "c", "a", "t", "i", "o", "n", ",", "S", "t", "r", "e", "e", "t">>
LNoSuburb ==
    <<",", ",", ",", ",", ",", ",", ",", ",">>
LBare ==
    <<",", ",", ",", ",", "\"", "H", "o", "l", "t", "\"", ",", "\"", "A", "C", "T", "\"", ",", "\"", "0", "2", "/", "0", "9", "/", "2", "0", "2", "1", "\"", ",", ",", ",">>
LLater ==
    <<",", "N", "e", "w", ",", "\"", "I", "G", "A", " ", "H", "o", "l", "t", "\"", ",", "\"", "1", " ", "H", "a", "y", " ", "S", "t", "r", "e", "e", "t", "\"", ",", "\"", "H", "o", "l", "t", "\"", ",", "\"", "A", "C", "T", "\"", ",", "\"", "2", "1", "/", "0", "9", "/", "2", "0", "2", "1", " ", "-", " ", "T", "u", "e", "s", "d", "a", "y", "\"", ",", "9", ":", "0", "0", "a", "m", ",", "9", ":", "3", "0", "a", "m", ",", "\"", "C", "a", "s", "u", "a", "l", "\"">>
LThreeTimes ==
    <<",", "N", "e", "w", ",", "\"", "S", "h", "o", "p", "\"", ",", "\"", "1", " ", "M", "a", "i", "n", " ", "S", "t", "r", "e", "e", "t", "\"", ",", "\"", "H", "o", "l", "t", "\"", ",", "\"", "A", "C", "T", "\"", ",", "\"", "0", "2", "/", "0", "9", "/", "2", "0", "2", "1", "\"", ",", "9", ":", "0", "0", "a", "m", ",", "9", ":", "3", "0", "a", "m", ",", "1", "0", ":", "0", "0", "a", "m", ",", "\"", "C", "l", "o", "s", "e", "\"">>
LPanic ==
    <<",", ",", "\"", "S", "h", "o", "p", "\"", ",", "\"", "1", " ", "M", "a", "i", "n", " ", "S", "t", "r", "e", "e", "t", "\"", ",", "\"", "H", "o", "l", "t", "\"", ",", "\"", "A", "C", "T", "\"", ",", "\"", "0", "2", "/", "0", "9", "/", "2", "0", "2", "1", "\"", ",", "x", ",", "\"", "C", "l", "o", "s", "e", "\"", ",", "9", ":", "0", "0", "a", "m">>

NL == <<"\n">>
Payloads ==
    {LHolt \o NL \o LTie \o NL \o LShort \o NL,
     LNoDate \o NL \o LNoSuburb \o NL \o LBare \o NL \o LKaleen,
     LKaleen \o NL \o LPanic \o NL \o LHolt}

sHoltLower ==
    <<"h", "o", "l", "t">>
sArchivedLower ==
    <<"a", "r", "c", "h", "i", "v", "e", "d">>
sColes ==
    <<"C", "o", "l", "e", "s">>
sWodenSp ==
    <<"W", "o", "d", "e", "n", " ">>
sColesWoden ==
    <<"C", "o", "l", "e", "s", " ", "W", "o", "d", "e", "n">>
sHoltRegex ==
    <<"h", ".", "l", "t">>
sWoden ==
    <<"w", "o", "d", "e", "n">>
sMonitorLower ==
    <<"m", "o", "n", "i", "t", "o", "r">>

\* Entry{} and the Entry main builds when no flag is given (Date: &time.Time{})
FNil == EmptyEntry
FZero == [EmptyEntry EXCEPT !.Date = ZeroTime]
FilterPool ==
    {FNil,
     FZero,
     [FZero EXCEPT !.Suburb = sHoltLower],
     [FZero EXCEPT !.ExposureLocation = sColes, !.Street = sWodenSp],
     [FZero EXCEPT !.ExposureLocation = sColesWoden],
     [FZero EXCEPT !.ArrivalTime = MkTime(0, 1, 1, 14, 15, 0)]}

QueryPool == {sHoltRegex}

MaxLoads == 2
MaxQueries == 1

(***************************************************************************)
(* The client x: SetCSVData, AddRaw, AddFiltered, the sort, Query and the  *)
(* flag values PositiveQueries and NegativeQueries.                        *)
(***************************************************************************)
\* AddRaw without the suburb test
AddRawAny(items, e) == Append(items, e)

AddRaw(items, e) == IF e.Suburb = <<>> THEN items ELSE Append(items, e)

\* AddFiltered without the suburb test
AddFilteredAny(items, e) == Append(items, e)

AddFiltered(items, e) == IF e.Suburb = <<>> THEN items ELSE Append(items, e)

\* Time.After: t is a later instant than u
After(t, u) ==
    \/ t.y > u.y
    \/ t.y = u.y /\ t.m > u.m
    \/ t.y = u.y /\ t.m = u.m /\ t.d > u.d
    \/ t.y = u.y /\ t.m = u.m /\ t.d = u.d /\ t.h > u.h
    \/ t.y = u.y /\ t.m = u.m /\ t.d = u.d /\ t.h = u.h /\ t.mi > u.mi
    \/ t.y = u.y /\ t.m = u.m /\ t.d = u.d /\ t.h = u.h /\ t.mi = u.mi /\ t.mono > u.mono

\* Entries.Less(i, j)
Less(a, b) == After(a.Date, b.Date)

RemoveAt(s, i) == SubSeq(s, 1, i - 1) \o SubSeq(s, i + 1, Len(s))

\* sort.Sort(&x.FilteredResults): the sort is not stable, so every order with
\* no element Less than one before it is a possible result
RECURSIVE SortedOrders(_)
SortedOrders(s) ==
    IF Len(s) = 0 THEN {<<>>}
    ELSE LET tops == {i \in 1..Len(s) : \A j \in 1..Len(s) : ~Less(s[j], s[i])}
         IN UNION {{<<s[i]>> \o r : r \in SortedOrders(RemoveAt(s, i))} : i \in tops}

\* the loop of SetCSVData from line k on: fieldTranslate, AddRaw, AddFiltered;
\* time.Now() is read once by each call that gets past the length check
RECURSIVE LoadLines(_, _, _, _, _)
LoadLines(lines, k, raw, filtered, clk) ==
    IF k > Len(lines)
    THEN [raw |-> raw, filtered |-> filtered, clock |-> clk, fault |-> FALSE]
    ELSE LET read == ~FTTooShort(Split(lines[k], ","))
             r == fieldTranslate(lines[k], Now(clk + 1))
             clk1 == IF read THEN clk + 1 ELSE clk
         IN IF r.fault
            THEN [raw |-> raw, filtered |-> filtered, clock |-> clk1, fault |-> TRUE]
            ELSE LoadLines(lines, k + 1, AddRaw(raw, r.entry),
                           AddFiltered(filtered, r.entry), clk1)

NoHist == [op |-> "none", qe |-> EmptyEntry, qraw |-> FALSE,
           noop |-> FALSE, since |-> "other", repeat |-> FALSE]

SetCSVData ==
    /\ ~panicked
    /\ loads < MaxLoads
    /\ \E r \in {LoadLines(Split(RawCSV, "\n"), 1, RawResults, FilteredResults, clock)} :
          /\ RawResults' = r.raw
          /\ clock' = r.clock
          /\ panicked' = r.fault
          /\ IF r.fault
             THEN FilteredResults' = r.filtered
             ELSE FilteredResults' \in SortedOrders(r.filtered)
    /\ loads' = loads + 1
    /\ stdout' = <<>>
    /\ hist' = [hist EXCEPT !.op = "SetCSVData", !.noop = FALSE, !.repeat = FALSE,
                            !.since = "other"]
    /\ UNCHANGED <<RawCSV, Filter, PositiveQueries, NegativeQueries>>

\* what Query's loop appends and prints for the records from k on
RECURSIVE QueryLoop(_, _, _, _, _, _, _, _)
QueryLoop(items, k, e, pos, neg, raw, filtered, out) ==
    IF k > Len(items)
    THEN [filtered |-> filtered, out |-> out, fault |-> FALSE]
    ELSE LET r == QueryEntry(items[k], e, pos, neg)
             noHandler == [j \in 1..(Len(QueryTime(e.ArrivalTime))
                                     + Len(QueryTime(e.DepartureTime))) |->
                              [kind |-> "nohandler", entry |-> EmptyEntry]]
         IN IF r.fault
            THEN [filtered |-> filtered, out |-> out, fault |-> TRUE]
            ELSE QueryLoop(items, k + 1, e, pos, neg, raw,
                    IF r.match /\ ~raw THEN Append(filtered, items[k]) ELSE filtered,
                    out \o noHandler \o
                        (IF r.match /\ raw
                         THEN <<[kind |-> "row", entry |-> items[k]]>> ELSE <<>>))

\* Query without the early return of lines 785-787
QueryResultNoReturn(e, raw, filter, items, filtered, pos, neg) ==
    LET r == QueryLoop(items, 1, e, pos, neg, raw, <<>>, <<>>)
    IN [Filter |-> e, filtered |-> r.filtered, out |-> r.out,
        fault |-> r.fault, noop |-> FALSE]

\* Query(e, params) from the state (filter, filtered): the early return when the
\* renderings of *e and x.Filter agree, else the rebuild
QueryResult(e, raw, filter, items, filtered, pos, neg) ==
    IF SprintEntry(e) = SprintEntry(filter)
    THEN [Filter |-> filter, filtered |-> filtered, out |-> <<>>,
          fault |-> FALSE, noop |-> TRUE]
    ELSE LET r == QueryLoop(items, 1, e, pos, neg, raw, <<>>, <<>>)
         IN [Filter |-> e, filtered |-> r.filtered, out |-> r.out,
             fault |-> r.fault, noop |-> FALSE]

\* a Query that moves the records out of RawResults instead of copying them
QueryDrain(e, raw) ==
    /\ ~panicked
    /\ Filter' = e
    /\ FilteredResults' = RawResults
    /\ RawResults' = <<>>
    /\ stdout' = <<>>
    /\ hist' = [op |-> "Query", qe |-> e, qraw |-> raw, noop |-> FALSE,
                since |-> "none", repeat |-> FALSE]
    /\ UNCHANGED <<RawCSV, PositiveQueries, NegativeQueries, clock, panicked, loads>>

Query(e, raw) ==
    /\ ~panicked
    /\ \E r \in {QueryResult(e, raw, Filter, RawResults, FilteredResults,
                              PositiveQueries, NegativeQueries)} :
          /\ Filter' = r.Filter
          /\ FilteredResults' = r.filtered
          /\ stdout' = r.out
          /\ panicked' = r.fault
          /\ hist' = [op |-> "Query", qe |-> e, qraw |-> raw,
                      noop |-> r.noop, since |-> "none",
                      repeat |-> hist.op = "Query" /\ hist.qe = e]
    /\ UNCHANGED <<RawCSV, RawResults, PositiveQueries, NegativeQueries, clock, loads>>

\* positiveQueries.Set(value), called by the flag package for -query and -q
AddPositive(q) ==
    /\ ~panicked
    /\ Len(PositiveQueries) + Len(NegativeQueries) < MaxQueries
    /\ PositiveQueries' = Append(PositiveQueries, q)
    /\ stdout' = <<>>
    /\ hist' = [hist EXCEPT !.op = "AddPositive", !.noop = FALSE, !.repeat = FALSE,
                            !.since = IF hist.since = "other" THEN "other" ELSE "lists"]
    /\ UNCHANGED <<RawCSV, RawResults, FilteredResults, Filter, NegativeQueries,
                   clock, panicked, loads>>

\* negativeQueries.Set(value), called by the flag package for -query-not and -qn
AddNegative(q) ==
    /\ ~panicked
    /\ Len(PositiveQueries) + Len(NegativeQueries) < MaxQueries
    /\ NegativeQueries' = Append(NegativeQueries, q)
    /\ stdout' = <<>>
    /\ hist' = [hist EXCEPT !.op = "AddNegative", !.noop = FALSE, !.repeat = FALSE,
                            !.since = IF hist.since = "other" THEN "other" ELSE "lists"]
    /\ UNCHANGED <<RawCSV, RawResults, FilteredResults, Filter, PositiveQueries,
                   clock, panicked, loads>>

(***************************************************************************)
(* Clean.                                                                  *)
(***************************************************************************)
\* the three trims of a line, in the order of the code
CleanLine(line) == Trim(Trim(Trim(line, "\r"), "!"), ",")

\* the loop of Clean from line k on; a line has no "\n" left for Replace to remove
RECURSIVE CleanLoop(_, _, _)
CleanLoop(lines, k, cleaned) ==
    IF k > Len(lines) THEN cleaned
    ELSE CleanLoop(lines, k + 1,
            IF Len(Split(lines[k], ",")) > 9
            THEN cleaned \o CleanLine(lines[k]) \o NL
            ELSE cleaned)

Clean ==
    /\ ~panicked
    /\ \E cleaned \in {CleanLoop(Split(RawCSV, "\n"), 1, <<>>)} :
          RawCSV' = IF Len(cleaned) # 0 THEN cleaned ELSE RawCSV
    /\ hist' = [hist EXCEPT !.op = "Clean", !.noop = FALSE, !.repeat = FALSE,
                            !.since = "other"]
    /\ UNCHANGED <<RawResults, FilteredResults, Filter, PositiveQueries,
                   NegativeQueries, stdout, clock, panicked, loads>>

\* the characters Clean trims, and payloads with up to MaxGarbage of them before
\* and after a line of ten fields
Garbage == {"\r", "!", ","}
MaxGarbage == 2

RECURSIVE GarbageSeqs(_)
GarbageSeqs(n) ==
    IF n = 0 THEN {<<>>}
    ELSE GarbageSeqs(n - 1)
         \cup {Append(g, c) : g \in GarbageSeqs(n - 1), c \in Garbage}

CleanInputs ==
    {pre \o LHolt \o suf : pre, suf \in GarbageSeqs(MaxGarbage)}
    \cup {LHolt \o <<"\r">> \o NL \o LShort \o NL \o LTie \o <<"\r">> \o NL,
          LNoDate \o <<"\r">> \o NL \o LBare \o NL,
          LShort \o <<"!">>}

(***************************************************************************)
(* Render and the report main prints after it.                             *)
(***************************************************************************)
\* t.Format(time.Kitchen): "3:04PM"
FormatKitchen(t) ==
    LET h12 == IF t.h % 12 = 0 THEN 12 ELSE t.h % 12
    IN Itoa(h12) \o <<":">> \o Pad(t.mi, 2)
       \o (IF t.h < 12 THEN <<"A", "M">> ELSE <<"P", "M">>)

\* the row s of an item
RenderRow(item) ==
    <<item.Status, item.ExposureLocation, item.Street, item.Suburb, item.State,
      DayMonthYear(item.Date) \o <<" ">> \o FormatKitchen(item.ArrivalTime)
         \o <<" ", "-", " ">> \o FormatKitchen(item.DepartureTime),
      item.Contact>>

\* the limit test with the index itself included
RenderAppendsInclusive(i, lim) == (lim # 0 /\ i <= lim) \/ lim = 0

\* whether the item at index i (from 0) is appended to the table
RenderAppends(i, lim) == (lim # 0 /\ i < lim) \/ lim = 0

\* the loop of Render from item k on (k from 1, the index i is k - 1)
RECURSIVE RenderLoop(_, _, _, _)
RenderLoop(items, k, lim, rows) ==
    IF k > Len(items) THEN rows
    ELSE RenderLoop(items, k + 1, lim,
            IF RenderAppends(k - 1, lim)
            THEN Append(rows, RenderRow(items[k])) ELSE rows)

Line(kind, count, total) == [kind |-> kind, count |-> count, total |-> total]

Render ==
    /\ mnPc = "render"
    /\ table' = RenderLoop(FilteredResults, 1, limit, <<>>)
    /\ printed' = IF ~rawOutput /\ Len(FilteredResults) = 0
                  THEN Append(printed, Line("no results found", 0, 0))
                  ELSE IF rawOutput THEN printed
                  ELSE Append(printed, Line("table", Len(table'), 0))
    /\ mnPc' = "report"
    /\ UNCHANGED <<limit, rawOutput>>

\* main after Render: the two report lines
MainReport ==
    /\ mnPc = "report"
    /\ LET n == Len(FilteredResults)
           count == IF limit > n THEN n ELSE limit
       IN printed' =
             printed
             \o (IF ~rawOutput /\ limit = 0 /\ n > 0
                 THEN <<Line("total items found", n, n)>> ELSE <<>>)
             \o (IF ~rawOutput /\ limit # 0 /\ n > 0
                 THEN <<Line("displaying", count, n)>> ELSE <<>>)
    /\ mnPc' = "done"
    /\ UNCHANGED <<limit, rawOutput, table>>

\* the records Render is run on, up to MaxItems of them, and the limits
RenderRecords == {fieldTranslate(l, Now(1)).entry : l \in {LHolt, LKaleen, LBare}}
MaxItems == 3
MaxLimit == 3

RECURSIVE ItemSeqs(_)
ItemSeqs(n) ==
    IF n = 0 THEN {<<>>}
    ELSE ItemSeqs(n - 1)
         \cup {Append(t, r) : t \in ItemSeqs(n - 1), r \in RenderRecords}

(***************************************************************************)
(* fieldTranslate, one call, an iteration of its loop at a time.           *)
(***************************************************************************)
tHoltQ ==
    <<"\"", "H", "o", "l", "t", "\"">>
tArr ==
    <<"2", ":", "1", "5", "p", "m">>
tDep ==
    <<"3", ":", "0", "0", "P", "M">>
tMonitorQ ==
    <<"\"", "M", "o", "n", "i", "t", "o", "r", "\"">>
tNewtown ==
    <<"N", "e", "w", "t", "o", "w", "n">>
tLocQ ==
    <<"\"", "7", "-", "E", "l", "e", "v", "e", "n", " ", "H", "o", "l", "t", "\"">>
tStreetQ ==
    <<"\"", "8", "8", " ", "H", "a", "r", "d", "w", "i", "c", "k", " ", "C", "r", "e", "s", "c", "e", "n", "t", "\"">>
tActQ ==
    <<"\"", "A", "C", "T", "\"">>
tDateQ ==
    <<"\"", "0", "1", "/", "0", "9", "/", "2", "0", "2", "1", " ", "-", " ", "W", "e", "d", "n", "e", "s", "d", "a", "y", "\"">>
tX ==
    <<"x", "1">>

\* seven leading components: no suburb, no time, no status, no contact
FTPrefix == <<<<>>, <<>>, tLocQ, tStreetQ, tActQ, tDateQ, tX>>
FTTailTokens == {tHoltQ, tArr, tDep, tMonitorQ, sNew, sPublicTransport, tNewtown}
MaxTail == 3

RECURSIVE TokenSeqs(_)
TokenSeqs(n) ==
    IF n = 0 THEN {<<>>}
    ELSE {Append(t, tok) : t \in TokenSeqs(n - 1), tok \in FTTailTokens}

FTLines ==
    {LHolt, LKaleen, LNoDate, LTie, LShort, LNoSuburb, LPanic, LThreeTimes}
    \cup {Join(FTPrefix \o t, <<",">>) : t \in UNION {TokenSeqs(n) : n \in 1..MaxTail}}

FTEnter ==
    /\ ftPc = "call"
    /\ \E components \in {Split(ftLine, ",")} :
          /\ ftComponents' = components
          /\ IF FTTooShort(components)
             THEN /\ ftPc' = "returned"
                  /\ ftRet' = EmptyEntry
                  /\ UNCHANGED <<ftI, ftLoc>>
             ELSE /\ ftPc' = "loop"
                  /\ ftI' = 1
                  /\ ftLoc' = FTLocals(Now(1))
                  /\ UNCHANGED ftRet
    /\ UNCHANGED ftLine

FTIter ==
    /\ ftPc = "loop"
    /\ ftI <= Len(ftComponents)
    /\ ftLoc' = FTStep(ftLoc, ftComponents, ftI)
    /\ ftPc' = IF ftLoc'.fault THEN "panic" ELSE "loop"
    /\ ftI' = ftI + 1
    /\ UNCHANGED <<ftLine, ftComponents, ftRet>>

FTReturn ==
    /\ ftPc = "loop"
    /\ ftI > Len(ftComponents)
    /\ ftRet' = FTEntry(ftLoc)
    /\ ftPc' = "returned"
    /\ UNCHANGED <<ftLine, ftComponents, ftI, ftLoc>>

(***************************************************************************)
(* The body of Query's loop on one record, under a filter that is narrowed *)
(* one constraint at a time.                                               *)
(***************************************************************************)
EvalRecords ==
    {fieldTranslate(l, Now(1)).entry :
        l \in {LHolt, LKaleen, LNoDate, LTie, LBare, LLater}}

\* -query and -query-not values: a regular expression and a plain word
EvalQueries == {sHoltRegex, sArchivedLower}

FieldNames == {"Status", "ExposureLocation", "Street", "Suburb", "State", "Date",
               "ArrivalTime", "DepartureTime", "Contact"}

FieldValues(f) ==
    CASE f = "Status" -> {sArchivedLower, sNilWord}
      [] f = "ExposureLocation" -> {sColes, <<"N", "i", "l">>}
      [] f = "Street" -> {sNilWord}
      [] f = "Suburb" -> {sHoltLower, sHoltRegex, sWoden}
      [] f = "State" -> {<<"a", "c", "t">>, <<"N", "I", "L">>}
      [] f = "Date" -> {MkTime(2021, 9, 1, 0, 0, 0), MkTime(2026, 11, 5, 0, 0, 0)}
      [] f = "ArrivalTime" -> {MkTime(0, 1, 1, 14, 15, 0)}
      [] f = "DepartureTime" -> {MkTime(0, 1, 1, 15, 0, 0)}
      [] f = "Contact" -> {sMonitorLower, <<"n", "I", "l">>}

MaxConstraints == 3

\* whether the filter constrains on field f: a string that is not empty, a date
\* that is neither nil nor the zero date main passes for no -date flag, a time
\* that is not nil
IsSet(e, f) ==
    IF f = "Date" THEN ~e.Date.isnil /\ e.Date # ZeroTime
    ELSE IF f \in {"ArrivalTime", "DepartureTime"} THEN ~e[f].isnil
    ELSE e[f] # <<>>

NumSet(e) == Cardinality({f \in FieldNames : IsSet(e, f)})
NumConstraints == NumSet(evE) + Len(evPos) + Len(evNeg)

EvSetField(f, v) ==
    /\ ~IsSet(evE, f)
    /\ NumConstraints < MaxConstraints
    /\ evE' = [evE EXCEPT ![f] = v]
    /\ evOut' = QueryEntry(evRec, evE', evPos, evNeg)
    /\ UNCHANGED <<evRec, evPos, evNeg>>

EvAddPositive(q) ==
    /\ NumConstraints < MaxConstraints
    /\ evPos' = Append(evPos, q)
    /\ evOut' = QueryEntry(evRec, evE, evPos', evNeg)
    /\ UNCHANGED <<evRec, evE, evNeg>>

EvAddNegative(q) ==
    /\ NumConstraints < MaxConstraints
    /\ evNeg' = Append(evNeg, q)
    /\ evOut' = QueryEntry(evRec, evE, evPos, evNeg')
    /\ UNCHANGED <<evRec, evE, evPos>>

(***************************************************************************)
(* The specifications.                                                     *)
(***************************************************************************)
MainIdle ==
    /\ RawCSV = <<>> /\ RawResults = <<>> /\ FilteredResults = <<>>
    /\ Filter = EmptyEntry /\ PositiveQueries = <<>> /\ NegativeQueries = <<>>
    /\ stdout = <<>> /\ clock = 0 /\ panicked = FALSE /\ loads = 0 /\ hist = NoHist

FTIdle ==
    /\ ftPc = "idle" /\ ftLine = <<>> /\ ftComponents = <<>> /\ ftI = 0
    /\ ftLoc = FTLocals(ZeroTime) /\ ftRet = EmptyEntry

EvIdle ==
    /\ evRec = EmptyEntry /\ evE = EmptyEntry /\ evPos = <<>> /\ evNeg = <<>>
    /\ evOut = [mq |-> <<>>, match |-> TRUE, fault |-> FALSE]

\* the package variables as declared, main not yet at Render
RnIdle ==
    /\ limit = 0 /\ rawOutput = TRUE /\ table = <<>> /\ printed = <<>>
    /\ mnPc = "idle"

\* the client: a payload is in RawCSV, nothing is loaded or queried yet
Init ==
    /\ RawCSV \in Payloads /\ RawResults = <<>> /\ FilteredResults = <<>>
    /\ Filter = EmptyEntry /\ PositiveQueries = <<>> /\ NegativeQueries = <<>>
    /\ stdout = <<>> /\ clock = 0 /\ panicked = FALSE /\ loads = 0 /\ hist = NoHist
    /\ FTIdle /\ EvIdle /\ RnIdle

Next ==
    \/ SetCSVData /\ UNCHANGED <<ftVars, evVars, rnVars>>
    \/ \E e \in FilterPool, raw \in BOOLEAN :
          Query(e, raw) /\ UNCHANGED <<ftVars, evVars, rnVars>>
    \/ \E q \in QueryPool : AddPositive(q) /\ UNCHANGED <<ftVars, evVars, rnVars>>
    \/ \E q \in QueryPool : AddNegative(q) /\ UNCHANGED <<ftVars, evVars, rnVars>>

Spec == Init /\ [][Next]_vars

\* one call of fieldTranslate on a line of FTLines
InitFT ==
    /\ MainIdle /\ EvIdle /\ RnIdle
    /\ ftPc = "call" /\ ftLine \in FTLines /\ ftComponents = <<>> /\ ftI = 0
    /\ ftLoc = FTLocals(ZeroTime) /\ ftRet = EmptyEntry

NextFT ==
    \/ FTEnter /\ UNCHANGED <<mainVars, evVars, rnVars>>
    \/ FTIter /\ UNCHANGED <<mainVars, evVars, rnVars>>
    \/ FTReturn /\ UNCHANGED <<mainVars, evVars, rnVars>>

SpecFT == InitFT /\ [][NextFT]_vars

\* one retained record, the unconstrained filter, then narrowing steps
InitEval ==
    /\ MainIdle /\ FTIdle /\ RnIdle
    /\ evRec \in EvalRecords /\ evE \in {FNil, FZero} /\ evPos = <<>> /\ evNeg = <<>>
    /\ evOut = QueryEntry(evRec, evE, evPos, evNeg)

NextEval ==
    \/ \E f \in FieldNames : \E v \in FieldValues(f) :
          EvSetField(f, v) /\ UNCHANGED <<mainVars, ftVars, rnVars>>
    \/ \E q \in EvalQueries : EvAddPositive(q) /\ UNCHANGED <<mainVars, ftVars, rnVars>>
    \/ \E q \in EvalQueries : EvAddNegative(q) /\ UNCHANGED <<mainVars, ftVars, rnVars>>

SpecEval == InitEval /\ [][NextEval]_vars

\* Clean on a payload of CleanInputs
InitClean ==
    /\ RawCSV \in CleanInputs /\ RawResults = <<>> /\ FilteredResults = <<>>
    /\ Filter = EmptyEntry /\ PositiveQueries = <<>> /\ NegativeQueries = <<>>
    /\ stdout = <<>> /\ clock = 0 /\ panicked = FALSE /\ loads = 0 /\ hist = NoHist
    /\ FTIdle /\ EvIdle /\ RnIdle

NextClean == Clean /\ UNCHANGED <<ftVars, evVars, rnVars>>

SpecClean == InitClean /\ [][NextClean]_vars

\* main from Render on, for any FilteredResults and any flags
InitRender ==
    /\ RawCSV = <<>> /\ RawResults = <<>>
    /\ FilteredResults \in ItemSeqs(MaxItems)
    /\ Filter = EmptyEntry /\ PositiveQueries = <<>> /\ NegativeQueries = <<>>
    /\ stdout = <<>> /\ clock = 0 /\ panicked = FALSE /\ loads = 0 /\ hist = NoHist
    /\ FTIdle /\ EvIdle
    /\ limit \in (-1)..MaxLimit /\ rawOutput \in BOOLEAN
    /\ table = <<>> /\ printed = <<>> /\ mnPc = "render"

NextRender ==
    \/ Render /\ UNCHANGED <<mainVars, ftVars, evVars>>
    \/ MainReport /\ UNCHANGED <<mainVars, ftVars, evVars>>

SpecRender == InitRender /\ [][NextRender]_vars

(***************************************************************************)
(* Properties of the client (Spec).                                        *)
(***************************************************************************)
\* the records of items that Query's loop body retains under (e, pos, neg), in order
Retained(items, e, pos, neg) ==
    QueryLoop(items, 1, e, pos, neg, FALSE, <<>>, <<>>).filtered

Count(s, x) == Cardinality({i \in 1..Len(s) : s[i] = x})

\* the same records, each the same number of times
SameRecords(s, t) ==
    /\ Len(s) = Len(t)
    /\ \A x \in Range(s) \cup Range(t) : Count(s, x) = Count(t, x)

\* C1: a Query call in normal mode whose filter differs in a field from the stored
\* Filter leaves in FilteredResults exactly the records of RawResults that the new
\* filter retains, whatever FilteredResults held before
C1_ChangedFilterRebuilds ==
    [][(/\ hist'.op = "Query"
        /\ ~hist'.qraw
        /\ hist'.qe # Filter)
       => FilteredResults' = Retained(RawResults, hist'.qe,
                                      PositiveQueries, NegativeQueries)]_vars

\* C2: a Query call that directly follows a Query call with the same filter leaves
\* FilteredResults, Filter and RawResults as they were and emits nothing
C2_RepeatedQueryIsNoOp ==
    [][(/\ hist.op = "Query"
        /\ hist'.op = "Query"
        /\ hist'.qe = hist.qe)
       => /\ FilteredResults' = FilteredResults
          /\ Filter' = Filter
          /\ RawResults' = RawResults
          /\ stdout' = <<>>]_vars

\* a second Query call with the same filter has returned, with records loaded
\* and a filter that retains some and drops some of them
C2_Witness ==
    /\ hist.op = "Query"
    /\ hist.repeat
    /\ hist.noop
    /\ Len(FilteredResults) > 0
    /\ Len(FilteredResults) < Len(RawResults)

\* C3: when a normal-mode Query call follows a normal-mode Query call with the same
\* per-field values and only the query lists were changed in between, FilteredResults
\* is re-evaluated: it holds the records retained under the lists as they now are
C3_ChangedListsReevaluated ==
    [][(/\ hist.since = "lists"
        /\ hist'.op = "Query"
        /\ hist'.qe = hist.qe
        /\ ~hist.qraw
        /\ ~hist'.qraw)
       => FilteredResults' = Retained(RawResults, hist'.qe,
                                      PositiveQueries, NegativeQueries)]_vars

NoEmptySuburb ==
    /\ \A i \in 1..Len(RawResults) : RawResults[i].Suburb # <<>>
    /\ \A i \in 1..Len(FilteredResults) : FilteredResults[i].Suburb # <<>>

\* what a SetCSVData call added to RawResults
AddedRaw == SubSeq(RawResults', Len(RawResults) + 1, Len(RawResults'))

\* C4: no record with an empty suburb is ever in RawResults or FilteredResults, and
\* the records a SetCSVData call adds to RawResults are the records it adds to
\* FilteredResults
C4_RetainedInBothOrNeither ==
    /\ []NoEmptySuburb
    /\ [][hist'.op = "SetCSVData" /\ loads' = loads + 1
          => /\ RawResults' = RawResults \o AddedRaw
             /\ SameRecords(FilteredResults', FilteredResults \o AddedRaw)]_vars

\* SetCSVData has run on a payload that has a line of nine components and no
\* suburb, and has retained the other lines only
C4_Witness ==
    /\ hist.op = "SetCSVData"
    /\ ~panicked
    /\ LNoSuburb \in Range(Split(RawCSV, "\n"))
    /\ Len(RawResults) > 0
    /\ Len(RawResults) < loads * Len(Split(RawCSV, "\n"))

\* C8: a normal-mode Query call that directly follows SetCSVData, with every per-field
\* value unset and both query lists empty, leaves in FilteredResults every record of
\* RawResults, and as many
C8_EmptyFilterMatchesAll ==
    [][(/\ hist.op = "SetCSVData"
        /\ ~panicked
        /\ hist'.op = "Query"
        /\ ~hist'.qraw
        /\ NumSet(hist'.qe) = 0
        /\ PositiveQueries = <<>>
        /\ NegativeQueries = <<>>)
       => /\ Len(FilteredResults') = Len(RawResults)
          /\ SameRecords(FilteredResults', RawResults)]_vars

\* a is b with some of its elements left out
RECURSIVE IsSubseq(_, _)
IsSubseq(a, b) ==
    IF a = <<>> THEN TRUE
    ELSE IF b = <<>> THEN FALSE
    ELSE IF Head(a) = Head(b) THEN IsSubseq(Tail(a), Tail(b))
    ELSE IsSubseq(a, Tail(b))

\* C26: after a Query call FilteredResults is a subsequence of RawResults
C26_FilteredInInputOrder ==
    (hist.op = "Query" /\ ~panicked) => IsSubseq(FilteredResults, RawResults)

\* C27: a Query call leaves RawResults, RawCSV and the two query lists as they were
C27_QueryLeavesRawResults ==
    [][hist'.op = "Query"
       => /\ RawResults' = RawResults
          /\ RawCSV' = RawCSV
          /\ PositiveQueries' = PositiveQueries
          /\ NegativeQueries' = NegativeQueries]_vars

\* a Query call has rebuilt FilteredResults to a part of a non-empty RawResults
C27_Witness ==
    /\ hist.op = "Query" /\ ~hist.noop /\ ~hist.qraw
    /\ FilteredResults # <<>>
    /\ Len(FilteredResults) < Len(RawResults)

\* C28: a normal-mode Query call that directly follows a raw-mode Query call with
\* the same filter leaves in FilteredResults exactly the records of RawResults that
\* the filter retains
C28_NormalAfterRawSameFilter ==
    [][(/\ hist.op = "Query" /\ hist.qraw
        /\ ~panicked
        /\ hist'.op = "Query" /\ ~hist'.qraw
        /\ hist'.qe = hist.qe)
       => SameRecords(FilteredResults',
                      Retained(RawResults, hist'.qe, PositiveQueries,
                               NegativeQueries))]_vars

NonNilTimes(r) == ~r.Date.isnil /\ ~r.ArrivalTime.isnil /\ ~r.DepartureTime.isnil

\* C29: every record in RawResults and in FilteredResults has a non-nil Date,
\* ArrivalTime and DepartureTime
C29_RecordsHaveTimes ==
    /\ \A i \in 1..Len(RawResults) : NonNilTimes(RawResults[i])
    /\ \A i \in 1..Len(FilteredResults) : NonNilTimes(FilteredResults[i])

\* FilteredResults holds a record whose times are the default and one whose date
\* is the reading of the clock, from a payload that also had a line without suburb
C29_Witness ==
    /\ \E i \in 1..Len(FilteredResults) :
          /\ FilteredResults[i].ArrivalTime = ZeroTime
          /\ FilteredResults[i].DepartureTime = ZeroTime
    /\ \E i \in 1..Len(FilteredResults) : FilteredResults[i].Date.mono > 0
    /\ LNoSuburb \in Range(Split(RawCSV, "\n"))

(***************************************************************************)
(* Properties of fieldTranslate (SpecFT).                                  *)
(***************************************************************************)
\* C5: a line of fewer than 9 components never makes fieldTranslate panic, and what
\* it returns for one is the empty record, which AddRaw and AddFiltered do not keep
C5_ShortLineEmptyRecord ==
    Len(Split(ftLine, ",")) < 9
    => /\ ftPc # "panic"
       /\ ftPc = "returned"
          => /\ ftRet = EmptyEntry
             /\ ftRet.Suburb = <<>>
             /\ AddRaw(<<>>, ftRet) = <<>>
             /\ AddFiltered(<<>>, ftRet) = <<>>

\* fieldTranslate has returned for a line of exactly eight components
C5_Witness == ftPc = "returned" /\ Len(Split(ftLine, ",")) = 8

\* s, unquoted and with its meridiem in capitals, parsed as a time of day
TimeOfDay(s) == ParseKitchen(UpperMeridiem(trimQuotes(s)))

\* C6: in the record fieldTranslate returns, ArrivalTime and DepartureTime are both
\* at their default (nil in the empty record, the zero time otherwise) or are the
\* times of two adjacent components that both parse as a time of day
C6_TimesSetAsPair ==
    ftPc = "returned"
    => \/ ftRet.ArrivalTime = NilTime /\ ftRet.DepartureTime = NilTime
       \/ ftRet.ArrivalTime = ZeroTime /\ ftRet.DepartureTime = ZeroTime
       \/ \E i \in 1..(Len(ftComponents) - 1) :
             /\ TimeOfDay(ftComponents[i]).ok
             /\ TimeOfDay(ftComponents[i + 1]).ok
             /\ ftRet.ArrivalTime = TimeOfDay(ftComponents[i]).t
             /\ ftRet.DepartureTime = TimeOfDay(ftComponents[i + 1]).t

\* fieldTranslate has returned a record with both times set, for a line that also
\* has a time of day followed by a component that is none
C6_Witness ==
    /\ ftPc = "returned"
    /\ ftRet.ArrivalTime \notin {NilTime, ZeroTime}
    /\ ftRet.DepartureTime \notin {NilTime, ZeroTime}
    /\ \E i \in 1..(Len(ftComponents) - 1) :
          TimeOfDay(ftComponents[i]).ok /\ ~TimeOfDay(ftComponents[i + 1]).ok

\* C7: in the record fieldTranslate returns, Status is New, Updated, Archived or
\* empty, Contact is Close, Casual, Monitor or empty, and State is one of ACT, NSW,
\* VIC, TAS, SA, WA, NT, QLD or empty
C7_EnumeratedFields ==
    ftPc = "returned"
    => /\ ftRet.Status \in {sNew, sUpdated, sArchived, <<>>}
       /\ ftRet.Contact \in {sClose, sCasual, sMonitor, <<>>}
       /\ ftRet.State \in
             {<<"A", "C", "T">>, <<"N", "S", "W">>, <<"V", "I", "C">>,
              <<"T", "A", "S">>, <<"S", "A">>, <<"W", "A">>, <<"N", "T">>,
              <<"Q", "L", "D">>, <<>>}

\* fieldTranslate has returned a record with all three set, for a line that has a
\* component beginning with a status word
C7_Witness ==
    /\ ftPc = "returned"
    /\ ftRet.Status # <<>> /\ ftRet.Contact # <<>> /\ ftRet.State # <<>>
    /\ \E i \in 1..Len(ftComponents) : ftComponents[i] = tNewtown

\* C14: when the same RawCSV is loaded twice, the records of the second load
\* equal those of the first, each to each and field for field
C14_SameLineSameRecord ==
    (loads = 2 /\ ~panicked)
    => \A i \in 1..(Len(RawResults) \div 2) :
          RawResults[i] = RawResults[i + (Len(RawResults) \div 2)]

\* C19: every record in RawResults or FilteredResults has a non-empty
\* ExposureLocation
C19_RetainedHasLocation ==
    /\ \A i \in 1..Len(RawResults) : RawResults[i].ExposureLocation # <<>>
    /\ \A i \in 1..Len(FilteredResults) : FilteredResults[i].ExposureLocation # <<>>

\* one uppercase letter followed by one or more lowercase letters
TitleCaseWord(s) ==
    Len(s) >= 2 /\ s[1] \in Upper /\ \A k \in 2..Len(s) : s[k] \in Lower

\* the components of the line after quote stripping
FTTokens == [i \in 1..Len(ftComponents) |-> trimQuotes(ftComponents[i])]

\* C13 as stated: the record returned for a line of at least 9 components, one of
\* which is a Title-case word, has a non-empty Suburb
C13_TitleCaseGivesSuburb ==
    (/\ ftPc = "returned"
     /\ Len(ftComponents) >= 9
     /\ \E i \in 1..Len(ftComponents) : TitleCaseWord(FTTokens[i]))
    => ftRet.Suburb # <<>>

\* C13: the record returned for a line of at least 9 components, one of which is a
\* Title-case word other than the status words New, Updated, Archived and the
\* contact words Close, Casual, Monitor, has a non-empty Suburb
C13_OtherTitleCaseGivesSuburb ==
    (/\ ftPc = "returned"
     /\ Len(ftComponents) >= 9
     /\ \E i \in 1..Len(ftComponents) :
           /\ TitleCaseWord(FTTokens[i])
           /\ FTTokens[i] \notin
                 {sNew, sUpdated, sArchived, sClose, sCasual, sMonitor})
    => ftRet.Suburb # <<>>

\* a record returned with the suburb Newtown, for a line that also has the status
\* word New
C13_Witness ==
    /\ ftPc = "returned"
    /\ Len(ftComponents) >= 9
    /\ \E i, j \in 1..Len(ftComponents) : FTTokens[i] = tNewtown /\ FTTokens[j] = sNew
    /\ ftRet.Suburb = tNewtown

\* C15: the record returned for a line of at least 9 components, exactly one of
\* which is a status word and exactly one a contact word, has that status word as
\* Status and that contact word as Contact, in either order of the two
C15_StatusAndContactAnyOrder ==
    \A i, j \in 1..Len(ftComponents) :
        (/\ ftPc = "returned"
         /\ Len(ftComponents) >= 9
         /\ FTTokens[i] \in {sNew, sUpdated, sArchived}
         /\ FTTokens[j] \in {sClose, sCasual, sMonitor}
         /\ \A k \in 1..Len(ftComponents) :
               /\ FTTokens[k] \in {sNew, sUpdated, sArchived} => k = i
               /\ FTTokens[k] \in {sClose, sCasual, sMonitor} => k = j)
        => ftRet.Status = FTTokens[i] /\ ftRet.Contact = FTTokens[j]

\* a record returned for a line whose contact word comes before its status word
C15_Witness ==
    /\ ftPc = "returned"
    /\ \E i, j \in 1..Len(ftComponents) :
          /\ j < i
          /\ FTTokens[i] = sNew
          /\ FTTokens[j] = sMonitor
          /\ \A k \in 1..Len(ftComponents) :
                FTTokens[k] \in {sNew, sMonitor} => k \in {i, j}
    /\ ftRet.Status = sNew
    /\ ftRet.Contact = sMonitor

\* C16: the example line classifies to Archived, Holt, ACT, 1 Sep 2021, 14:15,
\* 15:00, Monitor; the record is retained under the suburb filter "Holt" and
\* rejected under the suburb filter "Woden"
C16_ExampleLine ==
    (ftPc = "returned" /\ ftLine = LHolt)
    => /\ ftRet.Status = sArchived
       /\ ftRet.Suburb = <<"H", "o", "l", "t">>
       /\ ftRet.State = <<"A", "C", "T">>
       /\ ftRet.Date = MkTime(2021, 9, 1, 0, 0, 0)
       /\ ftRet.ArrivalTime = MkTime(0, 1, 1, 14, 15, 0)
       /\ ftRet.DepartureTime = MkTime(0, 1, 1, 15, 0, 0)
       /\ ftRet.Contact = sMonitor
       /\ QueryEntry(ftRet, [FZero EXCEPT !.Suburb = <<"H", "o", "l", "t">>],
                     <<>>, <<>>).match
       /\ ~QueryEntry(ftRet, [FZero EXCEPT !.Suburb = <<"W", "o", "d", "e", "n">>],
                      <<>>, <<>>).match

\* fieldTranslate has returned for the example line, after its ten iterations
C16_Witness ==
    /\ ftPc = "returned"
    /\ ftLine = LHolt
    /\ ftI = 11
    /\ ftRet.Suburb # <<>>

\* C22: for a line of at least 9 components whose last one is time-shaped,
\* fieldTranslate raises no fault, and the record it returns has both times at
\* their default
C22_LastTimeTokenSoftMiss ==
    (/\ Len(ftComponents) >= 9
     /\ MatchTime(FTTokens[Len(ftComponents)]))
    => /\ ftPc # "panic"
       /\ ftPc = "returned"
          => ftRet.ArrivalTime = ZeroTime /\ ftRet.DepartureTime = ZeroTime

\* the six fields a component can be assigned to
FTTargets == {"Status", "Contact", "State", "Suburb", "Location", "Street"}

\* C23: one iteration of the loop, that is one component, assigns at most one of
\* Status, Contact, State, Suburb, Location, Street
C23_TokenSetsOneField ==
    [][Cardinality({f \in FTTargets : ftLoc'[f] # ftLoc[f]}) <= 1]_vars

\* C24: once Suburb is assigned, no later component of the line changes it
C24_SuburbLocked ==
    [][ftLoc.Suburb # <<>> => ftLoc'.Suburb = ftLoc.Suburb]_vars

\* C25: once the two times are assigned from a pair, no later component of the
\* line changes them
C25_TimePairOnce ==
    [][(ftLoc.TimeStart # ZeroTime /\ ftLoc.TimeEnd # ZeroTime)
       => (ftLoc'.TimeStart = ftLoc.TimeStart /\ ftLoc'.TimeEnd = ftLoc.TimeEnd)]_vars

(***************************************************************************)
(* Properties of the evaluation of one record (SpecEval).                  *)
(***************************************************************************)
\* C9: the trace mq.Items has one boolean for each set field of the filter and one
\* for each positive and each negative query, and the record is retained exactly
\* when all of them are true
C9_TracePerConstraint ==
    /\ Len(evOut.mq) = NumConstraints
    /\ evOut.match <=> \A i \in 1..Len(evOut.mq) : evOut.mq[i]

\* a record evaluated under a set field, a positive and a negative query, retained
C9_Witness ==
    /\ NumSet(evE) > 0 /\ Len(evPos) > 0 /\ Len(evNeg) > 0
    /\ evOut.match

\* C10: setting one more field, or adding one more query, never turns a record
\* that was not retained into one that is
C10_NarrowingMonotonic == [][evOut'.match => evOut.match]_vars

\* a record still retained after a second constraint was added
C10_Witness ==
    /\ NumConstraints >= 2
    /\ evOut.match

\* C11: with nothing else set, a record is retained under one negative query q
\* exactly when it is not retained under the positive query q
C11_NegativeComplementsPositive ==
    (NumSet(evE) = 0 /\ evPos = <<>> /\ Len(evNeg) = 1)
    => (evOut.match <=> ~QueryEntry(evRec, evE, evNeg, <<>>).match)

SameDay(t, u) == t.y = u.y /\ t.m = u.m /\ t.d = u.d

\* C17: under a filter with a date set, a record is retained exactly when it passes
\* the other constraints and its day, month and year are those of the filter's date
C17_DateFilterExactDay ==
    IsSet(evE, "Date")
    => (evOut.match <=>
           /\ QueryEntry(evRec, [evE EXCEPT !.Date = NilTime], evPos, evNeg).match
           /\ SameDay(evE.Date, evRec.Date))

\* C21: a filter whose only constraint is an arrival time, or a departure time,
\* retains the record whose arrival time, or departure time, is that value
C21_TimeFilterRetainsMatch ==
    /\ (NumConstraints = 1 /\ IsSet(evE, "ArrivalTime")
        /\ evE.ArrivalTime = evRec.ArrivalTime) => evOut.match
    /\ (NumConstraints = 1 /\ IsSet(evE, "DepartureTime")
        /\ evE.DepartureTime = evRec.DepartureTime) => evOut.match

(***************************************************************************)
(* Properties of Clean (SpecClean) and of Render (SpecRender).             *)
(***************************************************************************)
\* C18: after Clean no line of RawCSV begins or ends with a carriage return, an
\* exclamation mark or a comma
C18_CleanedLinesTrimmed ==
    hist.op = "Clean"
    => \A line \in Range(Split(RawCSV, "\n")) :
          line # <<>>
          => /\ line[1] \notin {"\r", "!", ","}
             /\ line[Len(line)] \notin {"\r", "!", ","}

C30_CleanKeepsNineTokens ==
    [][(/\ hist'.op = "Clean"
        /\ \E line \in Range(Split(RawCSV, "\n")) : Len(Split(line, ",")) > 9)
       => \A line \in Range(Split(RawCSV', "\n")) :
             line # <<>> => Len(Split(line, ",")) >= 9]_vars

====
